---- MODULE Spec2Model ----
(***************************************************************************)
(* A model of protected_data<T, M> (src/src/protected_data.h) with         *)
(* M = std::shared_mutex, as it is used by src/src/main.cpp: one container *)
(* that owns a mutex and an object, the unique_guard / shared_guard        *)
(* handles it hands out, and the threads that call it.                     *)
(***************************************************************************)
EXTENDS Integers, Sequences, FiniteSets, TLC

\* ------------------------------------------------------------------ bounds
NThreads == 2
MaxHeld == 2
MaxVal == 1
MaxIter == 3
MaxHandles == 2

Threads == 1..NThreads
Slots == 1..MaxHeld
Vals == 0..MaxVal
Handles == 1..MaxHandles

NoThread == 0
NoGuard == [kind |-> "none"]
NoVal == <<>>

\* ------------------------------------------------------------- class types
\* main.cpp: class Shape (18-29) and class Square : public Shape (31-58).
Types == {"Shape", "Square"}

Base(T) == IF T = "Square" THEN "Shape" ELSE "none"

\* T is U or a class derived from U.
IsA(T, U) == T = U \/ Base(T) = U

\* The container's storage (T object_) and one object outside any container.
PdAddr == "pd.object_"
OtherAddr == "other"
Addrs == {PdAddr, OtherAddr}
NullPtr == "nullptr"

\* The container that make_shared built, and any other container.
Pd == "pd"
PdElsewhere == "another pd"
NullHandle == [T |-> "none", ptr |-> NullPtr]

VARIABLES
  mutex_,   \* the container's M mutex_: its exclusive owner and shared owners
  heap,     \* the objects by address; heap[PdAddr] is the container's object_
  guards,   \* guards[t][s]: the guard alive in slot s of thread t, or NoGuard
  call,     \* call[t]: the guard-returning call thread t is blocked in, if any
  acc,      \* acc[t]: the member call on the guarded object thread t is in
  ret,      \* the return the last step made, if it made one: who, what, which result
  written,  \* history: the last value a completed set_name stored, and how
  worker,   \* worker[t]: a worker thread's loop counter j and its place in the loop
  handles,  \* handles[h]: a shared_ptr<protected_data<T, M>>: its T and stored pointer
  use_count,  \* the owner count in the control block the shared_ptrs share
  container,  \* "alive" until the last owner deletes the container, then "destroyed"
  queue,    \* the threads waiting for mutex_, in arrival order (a fair lock's queue)
  other_values  \* Square::other_values, the container nested in the object

vars == <<mutex_, heap, guards, call, acc, ret, written, worker, handles,
          use_count, container, queue, other_values>>

\* The shared ownership of the container.
ownership == <<handles, use_count, container>>

\* ------------------------------------------------------- std::shared_mutex
\* The Lockable / SharedLockable operations the guards use on M.
\* lock() that does not wait for the shared owners.
CanLock_IgnoringReaders(m) == m.writer = NoThread

\* lock() that does not wait for the exclusive owner.
CanLock_IgnoringWriter(m) == \A t \in Threads : m.readers[t] = 0

CanLock(m) == m.writer = NoThread /\ \A t \in Threads : m.readers[t] = 0

lock(m, t) == [m EXCEPT !.writer = t]

unlock(m, t) == [m EXCEPT !.writer = NoThread]

\* lock_shared() that waits like lock(): for every owner.
CanLockShared_LikeExclusive(m) == CanLock(m)

\* lock_shared() that does not wait at all.
CanLockShared_Always(m) == TRUE

CanLockShared(m) == m.writer = NoThread

lock_shared(m, t) == [m EXCEPT !.readers[t] = @ + 1]

\* unlock_shared() that releases nothing.
unlock_shared_Noop(m, t) == m

unlock_shared(m, t) == [m EXCEPT !.readers[t] = @ - 1]

\* ------------------------------------------------------------ dynamic_cast
\* dynamic_cast<U*>(&object_): the same address when the object's runtime
\* type is U or derived from U, and a null pointer otherwise.
\* A cast that succeeds only on the exact type, as a typeid comparison would.
DynamicCast_ExactType(U, addr) == IF heap[addr].rtype = U THEN addr ELSE NullPtr

\* A cast whose result refers to a copy of the object.
DynamicCast_ToCopy(U, addr) == IF IsA(heap[addr].rtype, U) THEN OtherAddr ELSE NullPtr

DynamicCast(U, addr) == IF IsA(heap[addr].rtype, U) THEN addr ELSE NullPtr

\* ----------------------------------------------------------------- helpers
NoCall == [at |-> "idle"]
NoAcc == [op |-> "none"]

Alive(t) == {s \in Slots : guards[t][s] # NoGuard}

Held(t, kind) == {s \in Slots : guards[t][s].kind = kind}

AllGuards == {<<t, s>> \in Threads \X Slots : guards[t][s] # NoGuard}

UniqueGuards == {p \in AllGuards : guards[p[1]][p[2]].kind = "unique"}

SharedGuards == {p \in AllGuards : guards[p[1]][p[2]].kind = "shared"}

HasFreeSlot(t) == \E s \in Slots : guards[t][s] = NoGuard

FreeSlot(t) == CHOOSE s \in Slots :
                 /\ guards[t][s] = NoGuard
                 /\ \A r \in Slots : guards[t][r] = NoGuard => s <= r

\* The thread is running: not blocked in a guard's constructor, and not
\* inside a member call on a guarded object.
Running(t) == call[t].at = "idle" /\ acc[t].op = "none"

\* What a call returned: result is "guard", "empty", "true", "false", "value"
\* or "system_error"; g is the guard returned or used; val is the value read
\* and last the value the last completed set_name had stored by then;
\* waited tells that a conflicting guard was alive when the call was made.
Return(t, op, U, result, g, val, last) ==
  [t |-> t, op |-> op, U |-> U, result |-> result, g |-> g, val |-> val,
   last |-> last, waited |-> FALSE]

NoReturn == Return(NoThread, "none", "none", "none", NoGuard, NoVal, NoVal)

Request(op, U, kind, ptr, contended) ==
  [at |-> "lock", op |-> op, U |-> U, kind |-> kind, ptr |-> ptr,
   contended |-> contended]

\* ------------------------------------------------------------------ guards
\* A unique_guard that, for get_unique_cast, is built "without any lock".
unique_guard_CastUnlocked(t) ==
  /\ call[t].at = "lock" /\ call[t].kind = "unique"
  /\ call[t].op = "get_unique_cast" \/ CanLock(mutex_)
  /\ LET locks == call[t].op # "get_unique_cast"
         g == [kind |-> "unique", T |-> call[t].U, via |-> call[t].op,
               lock_ |-> IF locks THEN "mutex_" ELSE "none",
               object_ |-> call[t].ptr]
     IN /\ mutex_' = IF locks THEN lock(mutex_, t) ELSE mutex_
        /\ guards' = [guards EXCEPT ![t][FreeSlot(t)] = g]
        /\ ret' = [Return(t, call[t].op, call[t].U, "guard", g, NoVal, NoVal)
                   EXCEPT !.waited = call[t].contended]
  /\ call' = [call EXCEPT ![t] = NoCall]
  /\ UNCHANGED <<heap, acc, written>>

\* unique_guard(M& mutex, T& object) : lock_(mutex), object_(object)
\* std::unique_lock's constructor blocks in mutex.lock().
unique_guard(t) ==
  /\ call[t].at = "lock" /\ call[t].kind = "unique"
  /\ CanLock(mutex_)
  /\ mutex_' = lock(mutex_, t)
  /\ LET g == [kind |-> "unique", T |-> call[t].U, via |-> call[t].op,
               lock_ |-> "mutex_", object_ |-> call[t].ptr]
     IN /\ guards' = [guards EXCEPT ![t][FreeSlot(t)] = g]
        /\ ret' = [Return(t, call[t].op, call[t].U, "guard", g, NoVal, NoVal)
                   EXCEPT !.waited = call[t].contended]
  /\ call' = [call EXCEPT ![t] = NoCall]
  /\ UNCHANGED <<heap, acc, written>>

\* shared_guard(M& mutex_, T const& object) : lock_(mutex_), object_(object)
\* std::shared_lock's constructor blocks in mutex.lock_shared().
shared_guard(t) ==
  /\ call[t].at = "lock" /\ call[t].kind = "shared"
  /\ CanLockShared(mutex_)
  /\ mutex_' = lock_shared(mutex_, t)
  /\ LET g == [kind |-> "shared", T |-> call[t].U, via |-> call[t].op,
               lock_ |-> "mutex_", object_ |-> call[t].ptr]
     IN /\ guards' = [guards EXCEPT ![t][FreeSlot(t)] = g]
        /\ ret' = [Return(t, call[t].op, call[t].U, "guard", g, NoVal, NoVal)
                   EXCEPT !.waited = call[t].contended]
  /\ call' = [call EXCEPT ![t] = NoCall]
  /\ UNCHANGED <<heap, acc, written>>

\* ~unique_guard(): the std::unique_lock member unlocks the mutex it owns.
DestroyUnique(t, s) ==
  /\ Running(t)
  /\ guards[t][s] # NoGuard /\ guards[t][s].kind = "unique"
  /\ mutex_' = IF guards[t][s].lock_ = "mutex_" THEN unlock(mutex_, t)
               ELSE mutex_
  /\ guards' = [guards EXCEPT ![t][s] = NoGuard]
  /\ ret' = NoReturn
  /\ UNCHANGED <<heap, call, acc, written>>

\* ~shared_guard(): the std::shared_lock member releases its shared hold.
DestroyShared(t, s) ==
  /\ Running(t)
  /\ guards[t][s] # NoGuard /\ guards[t][s].kind = "shared"
  /\ mutex_' = IF guards[t][s].lock_ = "mutex_" THEN unlock_shared(mutex_, t)
               ELSE mutex_
  /\ guards' = [guards EXCEPT ![t][s] = NoGuard]
  /\ ret' = NoReturn
  /\ UNCHANGED <<heap, call, acc, written>>

\* A thread that locks a std::shared_mutex it already owns has undefined
\* behaviour.  The builds either leave it blocked for ever (no step of the
\* model) or, where the owner is recorded (an exclusive owner under glibc),
\* report EDEADLK, which std::shared_mutex throws as std::system_error.
ThrowDeadlock(t) ==
  /\ call[t].at = "lock"
  /\ mutex_.writer = t
  /\ call' = [call EXCEPT ![t] = NoCall]
  /\ ret' = Return(t, call[t].op, call[t].U, "system_error", NoGuard, NoVal,
                   NoVal)
  /\ UNCHANGED <<mutex_, heap, guards, acc, written>>

\* ---------------------------------------------------------- protected_data
\* Some guard that conflicts with a request of the given kind is alive.
Conflict(kind) ==
  IF kind = "unique" THEN AllGuards # {} ELSE UniqueGuards # {}

\* unique_guard<T, M> get_unique()
get_unique(t, T) ==
  /\ Running(t) /\ HasFreeSlot(t)
  /\ call' = [call EXCEPT ![t] =
                Request("get_unique", T, "unique", PdAddr, Conflict("unique"))]
  /\ ret' = NoReturn
  /\ UNCHANGED <<mutex_, heap, guards, acc, written>>

\* shared_guard<T, M> get_shared() const
get_shared(t, T) ==
  /\ Running(t) /\ HasFreeSlot(t)
  /\ call' = [call EXCEPT ![t] =
                Request("get_shared", T, "shared", PdAddr, Conflict("shared"))]
  /\ ret' = NoReturn
  /\ UNCHANGED <<mutex_, heap, guards, acc, written>>

\* A can_cast_to that takes a shared hold of the lock around the type check.
can_cast_to_Locked(t, U) ==
  /\ Running(t)
  /\ CanLockShared(mutex_)
  /\ ret' = Return(t, "can_cast_to", U,
                   IF DynamicCast(U, PdAddr) # NullPtr THEN "true" ELSE "false",
                   NoGuard, NoVal, NoVal)
  /\ UNCHANGED <<mutex_, heap, guards, call, acc, written>>

\* template<typename U> bool can_cast_to() const
can_cast_to(t, U) ==
  /\ Running(t)
  /\ ret' = Return(t, "can_cast_to", U,
                   IF DynamicCast(U, PdAddr) # NullPtr THEN "true" ELSE "false",
                   NoGuard, NoVal, NoVal)
  /\ UNCHANGED <<mutex_, heap, guards, call, acc, written>>

\* A get_unique_cast that locks first and checks the type under the lock.
get_unique_cast_LockFirst(t, U) ==
  /\ Running(t)
  /\ LET ptr == DynamicCast(U, PdAddr)
     IN IF ptr # NullPtr
        THEN /\ HasFreeSlot(t)
             /\ call' = [call EXCEPT ![t] =
                  Request("get_unique_cast", U, "unique", ptr,
                          Conflict("unique"))]
             /\ ret' = NoReturn
        ELSE /\ CanLock(mutex_)
             /\ ret' = Return(t, "get_unique_cast", U, "empty", NoGuard, NoVal,
                          NoVal)
             /\ UNCHANGED call
  /\ UNCHANGED <<mutex_, heap, guards, acc, written>>

\* template<typename U> std::optional<unique_guard<U, M>> get_unique_cast()
get_unique_cast(t, U) ==
  /\ Running(t)
  /\ LET ptr == DynamicCast(U, PdAddr)
     IN IF ptr # NullPtr
        THEN /\ HasFreeSlot(t)
             /\ call' = [call EXCEPT ![t] =
                  Request("get_unique_cast", U, "unique", ptr,
                          Conflict("unique"))]
             /\ ret' = NoReturn
        ELSE /\ ret' = Return(t, "get_unique_cast", U, "empty", NoGuard, NoVal,
                          NoVal)
             /\ UNCHANGED call
  /\ UNCHANGED <<mutex_, heap, guards, acc, written>>

\* template<typename U> std::optional<shared_guard<U, M>> get_shared_cast() const
get_shared_cast(t, U) ==
  /\ Running(t)
  /\ LET ptr == DynamicCast(U, PdAddr)
     IN IF ptr # NullPtr
        THEN /\ HasFreeSlot(t)
             /\ call' = [call EXCEPT ![t] =
                  Request("get_shared_cast", U, "shared", ptr,
                          Conflict("shared"))]
             /\ ret' = NoReturn
        ELSE /\ ret' = Return(t, "get_shared_cast", U, "empty", NoGuard, NoVal,
                          NoVal)
             /\ UNCHANGED call
  /\ UNCHANGED <<mutex_, heap, guards, acc, written>>

\* ------------------------------------------------- the guarded object
\* The guard's operator-> and operator* give the object its object_ member
\* refers to.  Shape::name is a std::string: get_name and set_name read and
\* copy it piece by piece, here in two pieces.
Deref(g) == heap[g.object_]

\* guard->get_name(): the first piece is read.
get_name_begin(t, s) ==
  /\ Running(t)
  /\ guards[t][s] # NoGuard
  /\ acc' = [acc EXCEPT ![t] =
               [op |-> "get_name", s |-> s, buf |-> Deref(guards[t][s]).name[1]]]
  /\ ret' = NoReturn
  /\ UNCHANGED <<mutex_, heap, guards, call, written>>

\* guard->get_name(): the second piece is read and the string returned.
get_name_end(t) ==
  /\ acc[t].op = "get_name"
  /\ LET g == guards[t][acc[t].s]
         v == <<acc[t].buf, Deref(g).name[2]>>
     IN ret' = Return(t, "get_name", g.T, "value", g, v, written.val)
  /\ acc' = [acc EXCEPT ![t] = NoAcc]
  /\ UNCHANGED <<mutex_, heap, guards, call, written>>

\* guard->set_name(v) through a unique_guard (a shared_guard gives a const
\* object, on which set_name does not compile): the first piece is stored.
set_name_begin(t, s, v) ==
  /\ Running(t)
  /\ guards[t][s] # NoGuard /\ guards[t][s].kind = "unique"
  /\ heap' = [heap EXCEPT ![guards[t][s].object_].name[1] = v]
  /\ acc' = [acc EXCEPT ![t] = [op |-> "set_name", s |-> s, buf |-> v]]
  /\ ret' = NoReturn
  /\ UNCHANGED <<mutex_, guards, call, written>>

\* A set_name that stores by replacing the object with a new one of the
\* guard's static type.
set_name_end_ReplacesObject(t) ==
  /\ acc[t].op = "set_name"
  /\ LET g == guards[t][acc[t].s]
         v == acc[t].buf
     IN /\ heap' = [heap EXCEPT ![g.object_] =
                      [rtype |-> g.T, name |-> <<v, v>>, edge |-> 0]]
        /\ written' = [val |-> <<v, v>>, via |-> g.via, T |-> g.T]
  /\ acc' = [acc EXCEPT ![t] = NoAcc]
  /\ ret' = NoReturn
  /\ UNCHANGED <<mutex_, guards, call>>

\* guard->set_name(v): the second piece is stored and the call returns.
set_name_end(t) ==
  /\ acc[t].op = "set_name"
  /\ LET g == guards[t][acc[t].s]
         v == acc[t].buf
     IN /\ heap' = [heap EXCEPT ![g.object_].name[2] = v]
        /\ written' = [val |-> <<v, v>>, via |-> g.via, T |-> g.T]
  /\ acc' = [acc EXCEPT ![t] = NoAcc]
  /\ ret' = NoReturn
  /\ UNCHANGED <<mutex_, guards, call>>

\* guard->get_edge() through a guard typed Square: int Square::edge is read.
get_edge(t, s) ==
  /\ Running(t)
  /\ guards[t][s] # NoGuard /\ guards[t][s].T = "Square"
  /\ ret' = Return(t, "get_edge", "Square", "value", guards[t][s],
                   Deref(guards[t][s]).edge, NoVal)
  /\ UNCHANGED <<mutex_, heap, guards, call, acc, written>>

\* guard->set_edge(v) through a unique_guard typed Square.
set_edge(t, s, v) ==
  /\ Running(t)
  /\ guards[t][s] # NoGuard /\ guards[t][s].kind = "unique"
  /\ guards[t][s].T = "Square"
  /\ heap' = [heap EXCEPT ![guards[t][s].object_].edge = v]
  /\ ret' = NoReturn
  /\ UNCHANGED <<mutex_, guards, call, acc, written>>

\* ------------------------------------------------------------ construction
\* protected_data(Args&&... args) : object_(std::forward<Args>(args)...)
\* The object is a Shape or, in a container reached through a Shape-typed
\* handle made by cast_shared_ptr_protected_data, a Square (main.cpp 91-97).
NewObject(rtype) == [rtype |-> rtype, name |-> <<0, 0>>, edge |-> 0]

\* mutable shared_protected_data<vector<int>> other_values: a mutex of its
\* own, the vector (its size), and per thread the guard held on it.
NewNested ==
  [mutex_ |-> [writer |-> NoThread, readers |-> [t \in Threads |-> 0]],
   object_ |-> 0,
   guards |-> [t \in Threads |-> "none"]]

InitContainer(rtype) ==
  /\ mutex_ = [writer |-> NoThread, readers |-> [t \in Threads |-> 0]]
  /\ heap = [a \in Addrs |-> NewObject(rtype)]
  /\ guards = [t \in Threads |-> [s \in Slots |-> NoGuard]]
  /\ call = [t \in Threads |-> NoCall]
  /\ acc = [t \in Threads |-> NoAcc]
  /\ ret = NoReturn
  /\ written = [val |-> <<0, 0>>, via |-> "init", T |-> rtype]
  /\ worker = [t \in Threads |-> [j |-> 0, at |-> "top", tmp |-> 0]]
  /\ handles = [h \in Handles |->
                  IF h = 1 THEN [T |-> rtype, ptr |-> Pd] ELSE NullHandle]
  /\ use_count = 1
  /\ container = "alive"
  /\ queue = <<>>
  /\ other_values = NewNested

\* The static type of the handle the threads call through (main.cpp 62, 103).
PdType == "Shape"

Init == \E rtype \in Types : InitContainer(rtype)

\* A step of a thread that is no worker of a loop.
Free(A) == A /\ UNCHANGED <<worker, ownership, queue, other_values>>

\* A guard-returning call of a thread that holds no guard on the container
\* (spec 5 forbids the re-entrant ones).
First(t, A) ==
  Alive(t) = {} /\ A /\ UNCHANGED <<worker, ownership, queue, other_values>>

\* Threads that call the container freely, each holding at most one guard
\* on it at a time.
Next ==
  \E t \in Threads :
    \/ First(t, get_unique(t, PdType))
    \/ First(t, get_shared(t, PdType))
    \/ \E U \in Types : Free(can_cast_to(t, U))
    \/ \E U \in Types : First(t, get_unique_cast(t, U))
    \/ \E U \in Types : First(t, get_shared_cast(t, U))
    \/ Free(unique_guard(t))
    \/ Free(shared_guard(t))
    \/ \E s \in Slots : Free(DestroyUnique(t, s))
    \/ \E s \in Slots : Free(DestroyShared(t, s))
    \/ \E s \in Slots : Free(get_name_begin(t, s))
    \/ Free(get_name_end(t))
    \/ \E s \in Slots, v \in Vals : Free(set_name_begin(t, s, v))
    \/ Free(set_name_end(t))

Spec == Init /\ [][Next]_vars

\* Threads that also call for a guard while they hold up to MaxHeld - 1
\* guards on the container.
NextReentrant ==
  \E t \in Threads :
    \/ Free(get_unique(t, PdType))
    \/ Free(get_shared(t, PdType))
    \/ \E U \in Types : Free(can_cast_to(t, U))
    \/ \E U \in Types : Free(get_unique_cast(t, U))
    \/ \E U \in Types : Free(get_shared_cast(t, U))
    \/ Free(unique_guard(t))
    \/ Free(shared_guard(t))
    \/ Free(ThrowDeadlock(t))
    \/ \E s \in Slots : Free(DestroyUnique(t, s))
    \/ \E s \in Slots : Free(DestroyShared(t, s))
    \/ \E s \in Slots : Free(get_name_begin(t, s))
    \/ Free(get_name_end(t))
    \/ \E s \in Slots, v \in Vals : Free(set_name_begin(t, s, v))
    \/ Free(set_name_end(t))

SpecReentrant == Init /\ [][NextReentrant]_vars

\* The same threads, making only the calls get_unique() and get_shared().
NextReacquire ==
  \E t \in Threads :
    \/ Free(get_unique(t, PdType))
    \/ Free(get_shared(t, PdType))
    \/ Free(unique_guard(t))
    \/ Free(shared_guard(t))
    \/ Free(ThrowDeadlock(t))
    \/ \E s \in Slots : Free(DestroyUnique(t, s))
    \/ \E s \in Slots : Free(DestroyShared(t, s))

SpecReacquire == Init /\ [][NextReacquire]_vars

\* ------------------------------------------------- threads that increment
\* N threads, each MaxIter times: take a unique guard on a container of a
\* Square, read its edge, store the value read plus one, drop the guard.
InitCounter == InitContainer("Square")

At(t, at) == worker[t].at = at

GoTo(t, at) ==
  /\ worker' = [worker EXCEPT ![t].at = at]
  /\ UNCHANGED <<ownership, queue, other_values>>

CounterLock(t) ==
  /\ At(t, "top") /\ worker[t].j < MaxIter
  /\ get_unique(t, "Square")
  /\ GoTo(t, "ctor")

CounterCtor(t) ==
  /\ At(t, "ctor")
  /\ unique_guard(t)
  /\ GoTo(t, "read")

CounterRead(t) ==
  /\ At(t, "read")
  /\ \E s \in Alive(t) :
       /\ get_edge(t, s)
       /\ worker' = [worker EXCEPT ![t].at = "write",
                                   ![t].tmp = Deref(guards[t][s]).edge]
       /\ UNCHANGED <<ownership, queue, other_values>>

CounterWrite(t) ==
  /\ At(t, "write")
  /\ \E s \in Alive(t) : set_edge(t, s, worker[t].tmp + 1)
  /\ GoTo(t, "close")

CounterUnlock(t) ==
  /\ At(t, "close")
  /\ \E s \in Alive(t) : DestroyUnique(t, s)
  /\ worker' = [worker EXCEPT ![t].at = "top", ![t].j = @ + 1]
  /\ UNCHANGED <<ownership, queue, other_values>>

NextCounter ==
  \E t \in Threads :
    \/ CounterLock(t)
    \/ CounterCtor(t)
    \/ CounterRead(t)
    \/ CounterWrite(t)
    \/ CounterUnlock(t)

SpecCounter == InitCounter /\ [][NextCounter]_vars

\* ------------------------------------------- the worker threads of main.cpp
\* main.cpp 159-177: each thread, for j = 0 .. MaxIter - 1, reads the name
\* under a shared guard when j is odd and overwrites it under a unique guard
\* when j is even.
InitWorkers == InitContainer("Shape")

\* "threaded shape-" + to_string(i) + "-" + to_string(j): one value per write.
WriteId(t, j) == (t - 1) * MaxIter + j + 1

WorkerGetShared(t) ==
  /\ At(t, "top") /\ worker[t].j < MaxIter /\ worker[t].j % 2 = 1
  /\ get_shared(t, PdType)
  /\ GoTo(t, "ctor")

WorkerGetUnique(t) ==
  /\ At(t, "top") /\ worker[t].j < MaxIter /\ worker[t].j % 2 = 0
  /\ get_unique(t, PdType)
  /\ GoTo(t, "ctor")

WorkerSharedGuard(t) ==
  /\ At(t, "ctor")
  /\ shared_guard(t)
  /\ GoTo(t, "use")

WorkerUniqueGuard(t) ==
  /\ At(t, "ctor")
  /\ unique_guard(t)
  /\ GoTo(t, "use")

WorkerReadBegin(t) ==
  /\ At(t, "use")
  /\ \E s \in Held(t, "shared") : get_name_begin(t, s)
  /\ GoTo(t, "mid")

WorkerReadEnd(t) ==
  /\ At(t, "mid")
  /\ get_name_end(t)
  /\ GoTo(t, "close")

WorkerWriteBegin(t) ==
  /\ At(t, "use")
  /\ \E s \in Held(t, "unique") : set_name_begin(t, s, WriteId(t, worker[t].j))
  /\ GoTo(t, "mid")

WorkerWriteEnd(t) ==
  /\ At(t, "mid")
  /\ set_name_end(t)
  /\ GoTo(t, "close")

WorkerDestroyShared(t) ==
  /\ At(t, "close")
  /\ \E s \in Alive(t) : DestroyShared(t, s)
  /\ worker' = [worker EXCEPT ![t].at = "top", ![t].j = @ + 1]
  /\ UNCHANGED <<ownership, queue, other_values>>

WorkerDestroyUnique(t) ==
  /\ At(t, "close")
  /\ \E s \in Alive(t) : DestroyUnique(t, s)
  /\ worker' = [worker EXCEPT ![t].at = "top", ![t].j = @ + 1]
  /\ UNCHANGED <<ownership, queue, other_values>>

NextWorkers ==
  \E t \in Threads :
    \/ WorkerGetShared(t)
    \/ WorkerGetUnique(t)
    \/ WorkerSharedGuard(t)
    \/ WorkerUniqueGuard(t)
    \/ WorkerReadBegin(t)
    \/ WorkerReadEnd(t)
    \/ WorkerWriteBegin(t)
    \/ WorkerWriteEnd(t)
    \/ WorkerDestroyShared(t)
    \/ WorkerDestroyUnique(t)

SpecWorkers == InitWorkers /\ [][NextWorkers]_vars

\* ------------------------------------------ shared ownership of a container
\* main.cpp 91-97: the containers are made by make_shared and reached through
\* shared_ptr handles; cast_shared_ptr_protected_data makes a handle of
\* another static type from a handle.
Live(h) == handles[h] # NullHandle

LiveHandles == {h \in Handles : Live(h)}

HasFreeHandle == \E h \in Handles : ~Live(h)

FreeHandle == CHOOSE h \in Handles :
                /\ ~Live(h)
                /\ \A k \in Handles : ~Live(k) => h <= k

\* p->object_: the object of the container the handle points to.
ObjectOf(p) == IF p.ptr = Pd THEN PdAddr ELSE OtherAddr

\* A cast that builds a new container holding a copy of the object, with an
\* owner count of its own.
reinterpret_pointer_cast_Copy(U, p) ==
  [handle |-> [T |-> U, ptr |-> PdElsewhere], use_count |-> use_count]

\* A cast that wraps the raw pointer in a shared_ptr with a control block of
\* its own: the container's owner count is not incremented.
reinterpret_pointer_cast_Unshared(U, p) ==
  [handle |-> [T |-> U, ptr |-> p.ptr], use_count |-> use_count]

\* std::reinterpret_pointer_cast<protected_data<U, M>>(p): a shared_ptr that
\* stores p's pointer, typed protected_data<U, M>, and shares p's control
\* block, whose owner count it increments.
reinterpret_pointer_cast(U, p) ==
  [handle |-> [T |-> U, ptr |-> p.ptr], use_count |-> use_count + 1]

\* template<typename U, typename T, typename M>
\* std::optional<std::shared_ptr<protected_data<U, M>>>
\*   cast_shared_ptr_protected_data(const std::shared_ptr<protected_data<T, M>>& p)
cast_shared_ptr_protected_data(t, h, U) ==
  /\ Running(t) /\ Live(h)
  /\ IF DynamicCast(U, ObjectOf(handles[h])) # NullPtr
     THEN /\ HasFreeHandle
          /\ LET r == reinterpret_pointer_cast(U, handles[h])
             IN /\ handles' = [handles EXCEPT ![FreeHandle] = r.handle]
                /\ use_count' = r.use_count
          /\ ret' = Return(t, "cast_shared_ptr_protected_data", U, "handle",
                           NoGuard, NoVal, NoVal)
     ELSE /\ ret' = Return(t, "cast_shared_ptr_protected_data", U, "empty",
                           NoGuard, NoVal, NoVal)
          /\ UNCHANGED <<handles, use_count>>
  /\ UNCHANGED <<mutex_, heap, guards, call, acc, written, container>>

\* No thread is inside a call on the container or holds a guard on it.
Quiet ==
  /\ AllGuards = {}
  /\ \A t \in Threads : call[t] = NoCall /\ acc[t] = NoAcc

\* ~shared_ptr(): the owner count is decremented, and the owner that brings
\* it to zero deletes the container.  The last owner goes only when no guard
\* refers into the container (spec 3, Lifecycle).
ResetHandle(t, h) ==
  /\ Running(t) /\ Live(h)
  /\ use_count > 1 \/ Quiet
  /\ handles' = [handles EXCEPT ![h] = NullHandle]
  /\ use_count' = use_count - 1
  /\ container' = IF use_count - 1 = 0 THEN "destroyed" ELSE container
  /\ ret' = NoReturn
  /\ UNCHANGED <<mutex_, heap, guards, call, acc, written>>

\* A guard on a container other than the one whose mutex_ this model holds:
\* it locks that container's own mutex and refers to that container's object.
ElsewhereGuard(t, op, kind, T) ==
  /\ Running(t) /\ HasFreeSlot(t)
  /\ LET g == [kind |-> kind, T |-> T, via |-> op, lock_ |-> "elsewhere",
               object_ |-> OtherAddr]
     IN /\ guards' = [guards EXCEPT ![t][FreeSlot(t)] = g]
        /\ ret' = Return(t, op, T, "guard", g, NoVal, NoVal)
  /\ UNCHANGED <<mutex_, heap, call, acc, written>>

\* A step that leaves the ownership alone.
Kept(A) == A /\ UNCHANGED <<worker, ownership, queue, other_values>>

\* A step on the ownership.
Owning(A) == A /\ UNCHANGED <<worker, queue, other_values>>

\* The shared_ptrs alive, as values: the static type and the stored pointer.
LivePtrs == {handles[h] : h \in LiveHandles}

\* p->get_unique() of a thread that holds no guard.
HandleGetUnique(t, p) ==
  /\ Alive(t) = {}
  /\ IF p.ptr = Pd THEN get_unique(t, p.T)
     ELSE ElsewhereGuard(t, "get_unique", "unique", p.T)
  /\ UNCHANGED <<worker, ownership, queue, other_values>>

\* p->get_shared() of a thread that holds no guard.
HandleGetShared(t, p) ==
  /\ Alive(t) = {}
  /\ IF p.ptr = Pd THEN get_shared(t, p.T)
     ELSE ElsewhereGuard(t, "get_shared", "shared", p.T)
  /\ UNCHANGED <<worker, ownership, queue, other_values>>

\* A member call through a shared_ptr to the container.
Through(p, A) ==
  /\ p.ptr = Pd
  /\ A
  /\ UNCHANGED <<worker, ownership, queue, other_values>>

\* A narrowing call made with a type the object's runtime type does not fit
\* (the calls with a fitting type are those of Next).
NonMatching(U, A) == DynamicCast(U, PdAddr) = NullPtr /\ A

\* main.cpp 100-131: the main thread, and the one thread it starts while it
\* holds a guard, use the handle the manager returned.
MainThread == 1
StartedThread == 2
PerShapeThreads == {MainThread, StartedThread}

InitHandles == \E rtype \in Types : InitContainer(rtype)

NextHandles ==
  \E t \in PerShapeThreads :
    \/ \E p \in LivePtrs : HandleGetUnique(t, p)
    \/ \E p \in LivePtrs : HandleGetShared(t, p)
    \/ \E p \in LivePtrs, U \in Types : Through(p, can_cast_to(t, U))
    \/ \E p \in LivePtrs, U \in Types :
         Through(p, NonMatching(U, get_unique_cast(t, U)))
    \/ \E p \in LivePtrs, U \in Types :
         Through(p, NonMatching(U, get_shared_cast(t, U)))
    \/ \E h \in Handles, U \in Types :
         Owning(cast_shared_ptr_protected_data(t, h, U))
    \/ \E h \in Handles : Owning(ResetHandle(t, h))
    \/ Kept(unique_guard(t))
    \/ Kept(shared_guard(t))
    \/ \E s \in Slots : Kept(DestroyUnique(t, s))
    \/ \E s \in Slots : Kept(DestroyShared(t, s))
    \/ \E s \in Slots : Kept(get_name_begin(t, s))
    \/ Kept(get_name_end(t))
    \/ \E s \in Slots, v \in Vals : Kept(set_name_begin(t, s, v))
    \/ Kept(set_name_end(t))

SpecHandles == InitHandles /\ [][NextHandles]_vars

\* ------------------------------------------------------------- a fair lock
\* M is a parameter of protected_data; here it is a lock that serves its
\* waiters in arrival order: lock() is granted to the first waiter, and
\* lock_shared() to a waiter with no lock() waiting before it.
Position(t) == CHOOSE i \in 1..Len(queue) : queue[i] = t

InQueue(t) == \E i \in 1..Len(queue) : queue[i] = t

Eligible(t) ==
  /\ InQueue(t)
  /\ IF call[t].kind = "unique" THEN Position(t) = 1
     ELSE \A i \in 1..(Position(t) - 1) : call[queue[i]].kind = "shared"

Without(t) == SelectSeq(queue, LAMBDA u : u # t)

\* A guard-returning call of a thread that holds no guard: when it reaches
\* the guard's constructor the thread joins the lock's waiters.
FairCall(t, A) ==
  /\ Alive(t) = {}
  /\ A
  /\ queue' = IF call'[t].at = "lock" THEN Append(queue, t) ELSE queue
  /\ UNCHANGED <<worker, ownership, other_values>>

\* The lock serves thread t: its guard's constructor returns.
FairUniqueGuard(t) ==
  /\ Eligible(t)
  /\ unique_guard(t)
  /\ queue' = Without(t)
  /\ UNCHANGED <<worker, ownership, other_values>>

FairSharedGuard(t) ==
  /\ Eligible(t)
  /\ shared_guard(t)
  /\ queue' = Without(t)
  /\ UNCHANGED <<worker, ownership, other_values>>

\* The guard a thread holds goes out of scope.
GuardLeavesScope(t) ==
  \E s \in Slots : Free(DestroyUnique(t, s)) \/ Free(DestroyShared(t, s))

NextFair ==
  \E t \in Threads :
    \/ FairCall(t, get_unique(t, PdType))
    \/ FairCall(t, get_shared(t, PdType))
    \/ \E U \in Types : FairCall(t, get_unique_cast(t, U))
    \/ \E U \in Types : FairCall(t, get_shared_cast(t, U))
    \/ FairUniqueGuard(t)
    \/ FairSharedGuard(t)
    \/ GuardLeavesScope(t)

\* Every guard is destroyed after finitely many steps of its holder, and the
\* lock does not leave a waiter it can serve unserved.
Fairness ==
  \A t \in Threads :
    /\ WF_vars(GuardLeavesScope(t))
    /\ WF_vars(FairUniqueGuard(t))
    /\ WF_vars(FairSharedGuard(t))

SpecFair == Init /\ [][NextFair]_vars /\ Fairness

\* ------------------------------------------- the container nested in Square
\* main.cpp 133-141, done MaxIter times by each of the two threads that hold
\* pShape: take a shared guard typed Square on the container, call add_value() and
\* get_number_of_values() through it, and let the guard go.  Both members
\* take a guard of their own on other_values (main.cpp 44-55).
\* A nested container that borrows the mutex of the container around it.
MutexOfNested_Outer == mutex_

\* other_values.mutex_: the M of the protected_data instance other_values.
MutexOfNested == other_values.mutex_

\* A step inside a member of Square, which touches only other_values.
Inside(t, at) ==
  /\ worker' = [worker EXCEPT ![t].at = at]
  /\ ret' = NoReturn
  /\ UNCHANGED <<mutex_, heap, guards, call, acc, written, ownership, queue>>

InitNested == InitContainer("Square")

\* pShape->get_shared_cast<Square>()
NestedGetSharedCast(t) ==
  /\ At(t, "top") /\ worker[t].j < MaxIter
  /\ get_shared_cast(t, "Square")
  /\ GoTo(t, "ctor")

NestedSharedGuard(t) ==
  /\ At(t, "ctor")
  /\ shared_guard(t)
  /\ GoTo(t, "use")

\* s_guard->add_value(10): auto guard = other_values.get_unique();
add_value_get_unique(t) ==
  /\ At(t, "use")
  /\ Held(t, "shared") # {}
  /\ Inside(t, "add.lock")
  /\ UNCHANGED other_values

\* ... the unique_guard's constructor locks other_values.mutex_
add_value_unique_guard(t) ==
  /\ At(t, "add.lock")
  /\ CanLock(MutexOfNested)
  /\ other_values' = [other_values EXCEPT !.mutex_ = lock(@, t),
                                          !.guards[t] = "unique"]
  /\ Inside(t, "add.size")

\* guard->push_back(val): the vector's size is read ...
add_value_push_back_begin(t) ==
  /\ At(t, "add.size")
  /\ worker' = [worker EXCEPT ![t].at = "add.store",
                              ![t].tmp = other_values.object_]
  /\ ret' = NoReturn
  /\ UNCHANGED <<mutex_, heap, guards, call, acc, written, ownership, queue,
                 other_values>>

\* ... and the element stored behind the last one.
add_value_push_back_end(t) ==
  /\ At(t, "add.store")
  /\ other_values' = [other_values EXCEPT !.object_ = worker[t].tmp + 1]
  /\ Inside(t, "add.close")

\* add_value returns: its guard unlocks other_values.mutex_
add_value_return(t) ==
  /\ At(t, "add.close")
  /\ other_values' = [other_values EXCEPT !.mutex_ = unlock(@, t),
                                          !.guards[t] = "none"]
  /\ Inside(t, "count.lock")

\* s_guard->get_number_of_values(): auto guard = other_values.get_shared();
get_number_of_values_shared_guard(t) ==
  /\ At(t, "count.lock")
  /\ CanLockShared(MutexOfNested)
  /\ other_values' = [other_values EXCEPT !.mutex_ = lock_shared(@, t),
                                          !.guards[t] = "shared"]
  /\ Inside(t, "count.close")

\* return guard->size(); and the guard releases its shared hold.
get_number_of_values_return(t) ==
  /\ At(t, "count.close")
  /\ other_values' = [other_values EXCEPT !.mutex_ = unlock_shared(@, t),
                                          !.guards[t] = "none"]
  /\ worker' = [worker EXCEPT ![t].at = "close",
                              ![t].tmp = other_values.object_]
  /\ ret' = NoReturn
  /\ UNCHANGED <<mutex_, heap, guards, call, acc, written, ownership, queue>>

\* s_sq_guard leaves its scope.
NestedDestroyShared(t) ==
  /\ At(t, "close")
  /\ \E s \in Alive(t) : DestroyShared(t, s)
  /\ worker' = [worker EXCEPT ![t].at = "top", ![t].j = @ + 1]
  /\ UNCHANGED <<ownership, queue, other_values>>

NestedThread(t) ==
  \/ NestedGetSharedCast(t)
  \/ NestedSharedGuard(t)
  \/ add_value_get_unique(t)
  \/ add_value_unique_guard(t)
  \/ add_value_push_back_begin(t)
  \/ add_value_push_back_end(t)
  \/ add_value_return(t)
  \/ get_number_of_values_shared_guard(t)
  \/ get_number_of_values_return(t)
  \/ NestedDestroyShared(t)

NextNested == \E t \in PerShapeThreads : NestedThread(t)

\* Every thread keeps running, and a lock that stays free is given to a
\* thread that waits for it.
SpecNested ==
  /\ InitNested /\ [][NextNested]_vars
  /\ \A t \in PerShapeThreads : WF_vars(NestedThread(t))

NestedDone == \A t \in PerShapeThreads : worker[t].j = MaxIter /\ At(t, "top")

\* ================================================================== claims
GuardAt(p) == guards[p[1]][p[2]]

\* C1: at most one unique guard is alive on the container, and while a unique
\* guard is alive no other guard of either kind is alive on it.
C1_UniqueGuardIsAlone ==
  /\ Cardinality(UniqueGuards) <= 1
  /\ UniqueGuards # {} => Cardinality(AllGuards) = 1

\* A unique guard from get_unique() is alive while another thread is blocked
\* in get_unique() or get_shared().
C1_Witness ==
  \E p \in UniqueGuards : \E t \in Threads \ {p[1]} :
    /\ call[t].at = "lock"
    /\ call[t].op \in {"get_unique", "get_shared"}
    /\ GuardAt(p).via = "get_unique"

\* C2: whenever no unique guard is alive, a pending get_shared() can be
\* granted at once, however many shared guards are alive.
C2_SharedGrantedBesideShared ==
  \A t \in Threads :
    (call[t].at = "lock" /\ call[t].op = "get_shared" /\ UniqueGuards = {})
      => ENABLED shared_guard(t)

\* get_shared() has just returned a guard to one thread while a shared guard
\* of another thread is alive: two shared guards coexist.
C2_Witness ==
  /\ ret.op = "get_shared" /\ ret.result = "guard"
  /\ \E u \in Threads \ {ret.t} : Held(u, "shared") # {}
  /\ Cardinality(SharedGuards) >= 2

\* A guard-returning call of thread t returns its guard in this step.
Granted(t) ==
  /\ call[t].at = "lock"
  /\ call'[t].at = "idle"
  /\ ret'.t = t /\ ret'.result = "guard"

\* C3: a get_unique() returns only in a state where every other guard has
\* been destroyed, a get_shared() only where no unique guard is alive, and
\* what is then read through the shared guard is the value the last
\* completed write stored.
C3_ConflictingRequestWaits ==
  /\ [][\A t \in Threads :
          Granted(t) =>
            IF call[t].kind = "unique" THEN AllGuards = {}
            ELSE UniqueGuards = {}]_vars
  /\ [](ret.op = "get_name" /\ ret.g.kind = "shared" => ret.val = ret.last)

\* A thread that asked for a shared guard while another thread's unique
\* guard was alive is given it now, after a value was written through a
\* unique guard, and the object it will read holds that value.
C3_Witness ==
  /\ ret.op = "get_shared" /\ ret.result = "guard" /\ ret.waited
  /\ written.via = "get_unique"
  /\ Deref(ret.g).name = written.val /\ written.val # <<0, 0>>

\* Every worker thread has run its loop to the end (and can be joined).
AllDone == \A t \in Threads : worker[t].j = MaxIter /\ At(t, "top")

\* C4: when every thread has finished its MaxIter read-then-write
\* increments under a unique guard, the counter is its initial value plus
\* NThreads * MaxIter.
C4_NoLostUpdate ==
  AllDone => heap[PdAddr].edge = 0 + NThreads * MaxIter

\* All threads have finished, and the last increment of each started from a
\* value that earlier increments had left in the counter.
C4_Witness ==
  /\ AllDone
  /\ heap[PdAddr].edge = NThreads * MaxIter
  /\ \A t \in Threads : worker[t].tmp > 0

\* The values the worker threads write.
WriteIds == {WriteId(t, j) : t \in Threads, j \in {i \in 0..(MaxIter - 1) : i % 2 = 0}}

Whole(v) == v[1] = v[2] /\ (v[1] = 0 \/ v[1] \in WriteIds)

\* C5: every name a reader observes is the initial name or the whole value of
\* one write, and after all threads have finished the name is the whole
\* value of one of the writes.
C5_NoTornRead ==
  /\ ret.op = "get_name" => Whole(ret.val)
  /\ AllDone => Whole(heap[PdAddr].name) /\ heap[PdAddr].name[1] \in WriteIds

\* A reader has read the whole value another thread wrote, while another
\* thread's get_unique waits for the reader's guard to go.
C5_Witness ==
  /\ ret.op = "get_name"
  /\ \E u \in Threads \ {ret.t} : call[u].at = "lock" /\ call[u].kind = "unique"
  /\ \E u \in Threads \ {ret.t} : ret.val = <<WriteId(u, 0), WriteId(u, 0)>>

\* C6: the lock's holders are exactly the alive guards (one exclusive hold
\* per unique guard, one shared hold per shared guard), the lock is free
\* when no guard is alive, and the lock changes only in a step that
\* constructs or destroys exactly one guard.
C6_LockHeldForGuardLifetime ==
  /\ [](/\ \A t \in Threads :
             /\ mutex_.writer = t <=> Held(t, "unique") # {}
             /\ Cardinality(Held(t, "unique")) <= 1
             /\ mutex_.readers[t] = Cardinality(Held(t, "shared"))
        /\ AllGuards = {} => CanLock(mutex_) /\ CanLockShared(mutex_))
  /\ [][mutex_' # mutex_ =>
          \E t \in Threads, s \in Slots :
            /\ guards'[t][s] # guards[t][s]
            /\ guards[t][s] = NoGuard \/ guards'[t][s] = NoGuard
            /\ \A u \in Threads, r \in Slots :
                 <<u, r>> # <<t, s>> => guards'[u][r] = guards[u][r]]_vars

\* A unique guard was constructed, written through and destroyed, and the
\* lock is free again while a shared guard request is about to take it.
C6_Witness ==
  /\ written.via # "init"
  /\ AllGuards = {} /\ mutex_.writer = NoThread
  /\ \A t \in Threads : mutex_.readers[t] = 0
  /\ \E t \in Threads : call[t].at = "lock"

\* The runtime type is U or a subtype of U, in terms of main.cpp's classes.
IsSubtypeOrSame(rtype, U) ==
  <<rtype, U>> \in {<<"Shape", "Shape">>, <<"Square", "Square">>,
                    <<"Square", "Shape">>}

\* C7: can_cast_to<U>() returns true, and get_unique_cast<U>() and
\* get_shared_cast<U>() go on to a populated guard, exactly when the
\* object's runtime type is U or a subtype of U; otherwise false and empty.
C7_CastsAgreeWithRuntimeType ==
  LET fits(U) == IsSubtypeOrSame(heap[PdAddr].rtype, U)
      casts == {"get_unique_cast", "get_shared_cast"}
  IN /\ ret.op = "can_cast_to" => ret.result = (IF fits(ret.U) THEN "true" ELSE "false")
     /\ ret.op \in casts /\ ret.result = "guard" => fits(ret.U) /\ ret.g.T = ret.U
     /\ ret.op \in casts /\ ret.result = "empty" => ~fits(ret.U)
     /\ \A t \in Threads :
          call[t].at = "lock" /\ call[t].op \in casts => fits(call[t].U)

\* get_shared_cast<Square>() has just returned a populated guard on a Square
\* held in the Shape-typed container.
C7_Witness ==
  /\ ret.op = "get_shared_cast" /\ ret.U = "Square" /\ ret.result = "guard"
  /\ heap[PdAddr].rtype = "Square"

\* C8: once a value has been written through a guard from get_unique_cast,
\* a read through a guard from get_shared() or get_unique() of the container
\* returns that value.
C8_NarrowedWriteSeenThroughBase ==
  (/\ ret.op = "get_name"
   /\ ret.g.via \in {"get_shared", "get_unique"}
   /\ written.via = "get_unique_cast")
    => ret.val = written.val

\* A thread has read through a get_shared() guard, typed Shape, the value
\* another thread wrote through a get_unique_cast<Square>() guard.
C8_Witness ==
  /\ ret.op = "get_name" /\ ret.g.via = "get_shared" /\ ret.g.T = "Shape"
  /\ written.via = "get_unique_cast" /\ written.T = "Square"
  /\ ret.val = written.val /\ ret.val # <<0, 0>>

C10_CastNeverAcquiresTwice ==
  \A t \in Threads :
    (/\ call[t].at = "lock" /\ call[t].op = "get_unique_cast"
     /\ Held(t, "unique") # {})
      => ENABLED unique_guard(t)

\* The three narrowing operations.
Narrowings ==
  {"get_unique_cast", "get_shared_cast", "cast_shared_ptr_protected_data"}

\* C11: a narrowing call with a type the object does not fit can return in
\* every state in which its thread is running, whatever the lock's state; it
\* returns empty, never an error; and the step in which it returns leaves the
\* lock, the guards, the pending calls, the object and the ownership alone.
C11_FailedNarrowingReturnsEmpty ==
  /\ [](\A t \in PerShapeThreads, U \in Types :
          (Running(t) /\ DynamicCast(U, PdAddr) = NullPtr) =>
            /\ ENABLED get_unique_cast(t, U)
            /\ ENABLED get_shared_cast(t, U)
            /\ \A h \in LiveHandles :
                 ENABLED cast_shared_ptr_protected_data(t, h, U))
  /\ []((/\ ret.op \in Narrowings
         /\ ~IsSubtypeOrSame(heap[PdAddr].rtype, ret.U))
          => ret.result = "empty")
  /\ [][ret'.op \in Narrowings /\ ret'.result = "empty" =>
          UNCHANGED <<mutex_, guards, call, acc, heap, ownership>>]_vars

\* get_unique_cast<Square>() on a Shape has just returned empty to a thread
\* while the other thread holds a unique guard on the container.
C11_Witness ==
  /\ ret.op = "get_unique_cast" /\ ret.U = "Square" /\ ret.result = "empty"
  /\ \E u \in Threads \ {ret.t} : Held(u, "unique") # {}
  /\ use_count = 1

\* C12: what is read through a guard obtained from a handle of one static
\* type is the value the last completed write stored, when that write went
\* through a guard obtained from a handle of the other static type; and
\* every guard, through whichever handle, refers to the container's object.
C12_HandlesShareStorage ==
  /\ \A p \in AllGuards : GuardAt(p).object_ = PdAddr
  /\ (/\ ret.op = "get_name"
      /\ written.via # "init"
      /\ ret.g.T # written.T)
       => ret.val = written.val

\* Through a guard from the original, Square-typed handle a thread has read
\* the value written through a unique guard from the retyped, Shape-typed
\* handle.
C12_Witness ==
  /\ heap[PdAddr].rtype = "Square"
  /\ ret.op = "get_name" /\ ret.g.T = "Square" /\ ret.g.via = "get_shared"
  /\ written.via = "get_unique" /\ written.T = "Shape"
  /\ ret.val = written.val /\ ret.val # <<0, 0>>

\* C13: every guard, through whichever handle it was obtained, holds the
\* container's one mutex_, and two guards alive together are both shared.
C13_HandlesShareOneLock ==
  /\ \A p \in AllGuards : GuardAt(p).lock_ = "mutex_"
  /\ \A p, q \in AllGuards :
       p # q => GuardAt(p).kind = "shared" /\ GuardAt(q).kind = "shared"

\* A unique guard from the retyped, Shape-typed handle is alive while the
\* other thread's call through the Square-typed handle waits for the lock.
C13_Witness ==
  /\ heap[PdAddr].rtype = "Square"
  /\ \E p \in UniqueGuards : \E t \in Threads \ {p[1]} :
       /\ GuardAt(p).T = "Shape" /\ GuardAt(p).via = "get_unique"
       /\ call[t].at = "lock" /\ call[t].U = "Square"
       /\ call[t].op \in {"get_unique", "get_shared"}

\* C14: the owner count equals the number of handles alive, every handle
\* points to the one container, the container is alive exactly while a
\* handle is, and a successful cast adds one handle and one to the count
\* and touches neither the container, its lock nor its object.
C14_CastSharesOwnership ==
  /\ [](use_count = Cardinality(LiveHandles))
  /\ [](\A h \in LiveHandles : handles[h].ptr = Pd)
  /\ [](container = "alive" <=> LiveHandles # {})
  /\ [][(/\ ret'.op = "cast_shared_ptr_protected_data"
          /\ ret'.result = "handle") =>
            /\ use_count' = use_count + 1
            /\ Cardinality({h \in Handles : handles'[h] # NullHandle})
                 = Cardinality(LiveHandles) + 1
            /\ \A h \in LiveHandles : handles'[h] = handles[h]
            /\ UNCHANGED <<container, mutex_, heap, guards>>]_vars

\* The original handle of a Square's container has been released, and a
\* thread has just been given a guard through the retyped handle.
C14_Witness ==
  /\ heap[PdAddr].rtype = "Square"
  /\ \A h \in LiveHandles : handles[h].T = "Shape"
  /\ container = "alive" /\ use_count = 1
  /\ ret.result = "guard" /\ ret.g.T = "Shape"

\* C15: can_cast_to and cast_shared_ptr_protected_data can return in every
\* state in which their thread is running, whatever the lock's state, and
\* the step in which they return leaves the lock, the guards and the pending
\* calls alone.
C15_TypeChecksTakeNoLock ==
  /\ [](\A t \in PerShapeThreads, U \in Types :
          Running(t) =>
            /\ ENABLED can_cast_to(t, U)
            /\ \A h \in LiveHandles :
                 (HasFreeHandle \/ DynamicCast(U, PdAddr) = NullPtr)
                   => ENABLED cast_shared_ptr_protected_data(t, h, U))
  /\ [][ret'.op \in {"can_cast_to", "cast_shared_ptr_protected_data"} =>
          UNCHANGED <<mutex_, guards, call, acc>>]_vars

\* cast_shared_ptr_protected_data has just returned a handle to a thread
\* while the other thread holds a unique guard on the container.
C15_Witness ==
  /\ ret.op = "cast_shared_ptr_protected_data" /\ ret.result = "handle"
  /\ \E u \in Threads \ {ret.t} : Held(u, "unique") # {}

\* Thread t is inside a get_unique() made while it holds a guard, or inside
\* a get_shared() made while it holds a unique guard.
Reentered(t) ==
  /\ call[t].at = "lock"
  /\ \/ call[t].op = "get_unique" /\ Alive(t) # {}
     \/ call[t].op = "get_shared" /\ Held(t, "unique") # {}

Blocked(t) ==
  /\ call[t].at = "lock"
  /\ ~ENABLED FairUniqueGuard(t) /\ ~ENABLED FairSharedGuard(t)

\* C17: with every thread holding at most one guard at a time and destroying
\* it after finitely many steps, and a lock that serves waiters in arrival
\* order: whenever a thread is blocked, another thread is running with a
\* guard it will destroy or is a waiter the lock can serve, so not all
\* threads are blocked; a call that has reached the lock ends only by
\* returning its guard; and every such call does return.
C17_WellBehavedCallersProgress ==
  /\ [](\A t \in Threads :
          Blocked(t) =>
            \E u \in Threads \ {t} :
              \/ Running(u) /\ Alive(u) # {}
              \/ call[u].at = "lock" /\ ~Blocked(u))
  /\ [](\E t \in Threads : ~Blocked(t))
  /\ [][\A t \in Threads :
          (call[t].at = "lock" /\ call'[t].at = "idle") => Granted(t)]_vars
  /\ \A t \in Threads :
       \A op \in {"get_unique", "get_shared", "get_unique_cast",
                   "get_shared_cast"} :
         (call[t].at = "lock" /\ call[t].op = op)
           ~> (Alive(t) # {} /\ call[t].at = "idle")

\* get_unique_cast() has just returned its guard to a thread that made the
\* call while another guard was alive, and another thread waits in turn.
C17_Witness ==
  /\ ret.op = "get_unique_cast" /\ ret.result = "guard" /\ ret.waited
  /\ \E u \in Threads \ {ret.t} : Blocked(u)

\* The narrowing operations that return a guard.
GuardNarrowings == {"get_unique_cast", "get_shared_cast"}

\* C18: no step changes the object's runtime type, so none changes what
\* can_cast_to<U>() returns; a get_unique_cast / get_shared_cast waiting for
\* the lock still passes its type check, with the same pointer, and does so
\* in the step that grants it; and the object a guard typed T refers to has
\* runtime type T or a subtype.
C18_RuntimeTypeIsFixed ==
  /\ [][\A a \in Addrs : heap'[a].rtype = heap[a].rtype]_vars
  /\ [][\A U \in Types :
          IsSubtypeOrSame(heap'[PdAddr].rtype, U)
            <=> IsSubtypeOrSame(heap[PdAddr].rtype, U)]_vars
  /\ [](\A t \in Threads :
          (call[t].at = "lock" /\ call[t].op \in GuardNarrowings) =>
            /\ call[t].ptr # NullPtr
            /\ DynamicCast(call[t].U, PdAddr) = call[t].ptr)
  /\ [][\A t \in Threads :
          (Granted(t) /\ call[t].op \in GuardNarrowings) =>
            IsSubtypeOrSame(heap'[PdAddr].rtype, call[t].U)]_vars
  /\ [](\A p \in AllGuards :
          IsSubtypeOrSame(Deref(GuardAt(p)).rtype, GuardAt(p).T))

\* get_unique_cast<Square>() has just returned its guard on a Square after
\* waiting for a guard through which the name was written in the meantime.
C18_Witness ==
  /\ ret.op = "get_unique_cast" /\ ret.U = "Square" /\ ret.result = "guard"
  /\ ret.waited
  /\ written.via = "get_unique" /\ written.T = "Shape"
  /\ heap[PdAddr].name = written.val /\ written.val # <<0, 0>>

\* C19: a request for the nested container's lock can be served whenever
\* that lock allows it, whatever guards are alive on the outer container,
\* and a request for the outer lock whenever the outer lock allows it,
\* whatever guards are alive on the nested one; a unique guard on the nested
\* container is alone on it and no push_back is lost; some thread can step
\* until all have finished; and every add_value() that waits for the nested
\* lock gets it.
C19_NestedLockIsIndependent ==
  /\ [](\A t \in Threads :
          /\ (At(t, "add.lock") /\ CanLock(other_values.mutex_))
               => ENABLED add_value_unique_guard(t)
          /\ (At(t, "count.lock") /\ CanLockShared(other_values.mutex_))
               => ENABLED get_number_of_values_shared_guard(t)
          /\ (At(t, "ctor") /\ CanLockShared(mutex_))
               => ENABLED NestedSharedGuard(t))
  /\ [](\A t \in Threads :
          /\ other_values.mutex_.writer = t <=> other_values.guards[t] = "unique"
          /\ other_values.mutex_.readers[t]
               = (IF other_values.guards[t] = "shared" THEN 1 ELSE 0)
          /\ other_values.guards[t] = "unique" =>
               \A u \in Threads \ {t} : other_values.guards[u] = "none")
  /\ [](NestedDone =>
         other_values.object_ = Cardinality(PerShapeThreads) * MaxIter)
  /\ [](NestedDone \/ ENABLED NextNested)
  /\ \A t \in Threads :
       At(t, "add.lock") ~> other_values.guards[t] = "unique"

\* Two threads hold shared guards on the outer container; one of them holds
\* the unique guard on other_values and the other waits for it in add_value.
C19_Witness ==
  \E t \in Threads : \E u \in Threads \ {t} :
    /\ Held(t, "shared") # {} /\ Held(u, "shared") # {}
    /\ other_values.guards[t] = "unique"
    /\ At(u, "add.lock")
    /\ other_values.object_ > 0

====
